---- MODULE Spec2Model ----
(***************************************************************************)
(* ObservableSocket (src/src/core/ObservableSocket.ts): one session over   *)
(* one WebSocket transport at a time, with its pending-request table, its  *)
(* heartbeat timers, its expiry sweep and its reconnect policy.            *)
(*                                                                         *)
(* Time is in milliseconds.  Every timer is kept as the time left until it *)
(* is due; Advance moves time forward, never past a due timer, and a due   *)
(* timer's callback is its own action.  Timers due at the same instant may *)
(* fire in either order.  All callbacks run to completion (one action).    *)
(*                                                                         *)
(* ObservableSocketProvider (src/src/context/ObservableSocketContext.tsx): *)
(* the registry of sessions by name.  Its callbacks read the sockets state *)
(* of the last render; setSockets queues an updater, and Render applies    *)
(* the queue and runs the effect's cleanup when the state changed.  The    *)
(* registry's specification takes a session by its close() and by its      *)
(* lifecycle notifications, which may come at any time.                    *)
(***************************************************************************)
EXTENDS Integers, Sequences, FiniteSets, TLC

\* ------------------------------------------------------------------ bounds
\* Number of correlation ids (uuids) the callers and the peer may use.
MaxReq == 2
\* Largest maxReconnectAttempts drawn by Init.
MaxAttempts == 2
\* Largest maxReconnectAttempts drawn by BackoffInit.
MaxBackoffAttempts == 6
\* Number of correlation ids in the specifications that follow one request.
MaxSoloReq == 1
\* Number of sessions the registry creates.
MaxInst == 3
\* Number of setSockets updaters queued between two renders.
MaxUpdates == 2

\* ------------------------------------------------------- program constants
MAX_TIMEOUT == 1800000
MIN_QUE_TIMEOUT == 2000
BackoffBase == 1000
BackoffMax == 15000
JitterRange == 300
\* null, for a timer handle that is not set and for "no close code yet"
NULL == -1

PolicyCodes == {1008, 1011}
\* close codes the transport may report: normal, abnormal, policy, server error
CloseCodes == {1000, 1006, 1008, 1011}

Ids == 1..MaxReq
\* uuid of a message nobody waits for (a PING, a server push): never in Ids
NoUuid == 0
\* Math.random() * 300 lies in [0, 300): its extremes
Jitters == {0, JitterRange - 1}
\* the step by which time advances between timer deadlines
Quantum == MIN_QUE_TIMEOUT \div 2

\* headers are sets of <<key, value>> pairs with distinct keys
GlobalHeaderChoices == { {<<"token", "g">>, <<"lang", "g">>} }
MessageHeaderChoices == { {}, {<<"token", "m">>, <<"trace", "m">>} }

VARIABLES
    \* configuration, fixed by the constructor
    requestTimeout, queManagerTimeout, maxReconnectAttempts, heartbeatRate,
    heartbeatTimeoutDuration, enableQueManager, globalHeaders,
    \* the session
    readyState,          \* this.socket.readyState of the current transport
    pendingRequests,     \* uuid -> [expire, swept]: time left until expire < Date.now();
                         \* swept notes that the sweep was running at registration
    manuallyClosed,
    reconnectAttempts,
    heartbeatInterval,   \* NULL, or time left to the next heartbeat tick
    heartbeatTimeout,    \* [set, live, left]: handle set?, timer armed?, time left
    queManagerInterval,  \* NULL, or time left to the next sweep
    reconnectTimer,      \* NULL, or time left of the reconnect delay
    \* observation
    unusedIds,           \* uuids no message has been built with yet
    delivered,           \* uuid -> the calls its waiter's handler has received
    closeCalled,         \* close() has been called
    closeCode,           \* code of the current transport's close event, or NULL
    backoffLog,          \* the last two reconnect delays scheduled since the last open
    retries,             \* transports created by the reconnect delay since the last open
    last,                \* the handler that ran last: [op, route, uuid, headers]
    out,                 \* what that handler called, in order
    \* the registry (ObservableSocketProvider)
    sockets,             \* the sockets state of the last render: name -> [inst, socketState]
    updates,             \* the setSockets updaters queued since the last render
    instanceIdsRef,      \* instanceIdsRef.current: name -> instanceId, NoInst for none
    instances,           \* the sessions addSocket created, by instanceId: [name, closed]
    mounted,             \* the provider is mounted
    call                 \* the registry's code that ran last: [op, name, inst, flag]

cfgVars == <<requestTimeout, queManagerTimeout, maxReconnectAttempts, heartbeatRate,
             heartbeatTimeoutDuration, enableQueManager, globalHeaders>>
sessionVars == <<readyState, pendingRequests, manuallyClosed, reconnectAttempts,
                 heartbeatInterval, heartbeatTimeout, queManagerInterval, reconnectTimer>>
ghostVars == <<unusedIds, delivered, closeCalled, closeCode, backoffLog, retries>>
registryVars == <<sockets, updates, instanceIdsRef, instances, mounted, call>>
vars == <<cfgVars, sessionVars, ghostVars, last, out, registryVars>>

\* ----------------------------------------------------------------- helpers
Min(a, b) == IF a <= b THEN a ELSE b

RECURSIVE Pow2(_)
Pow2(n) == IF n = 0 THEN 1 ELSE 2 * Pow2(n - 1)

\* constructor: requestTimeout clamped to [MIN_QUE_TIMEOUT, MAX_TIMEOUT]
ClampRequestTimeout(t) ==
    IF t > MAX_TIMEOUT THEN MAX_TIMEOUT
    ELSE IF t < MIN_QUE_TIMEOUT THEN MIN_QUE_TIMEOUT
    ELSE t

\* {...message.headers, ...globalHeaders}: the session's value wins on a shared key
MergeHeadersGlobalWins(g, m) ==
    g \cup {p \in m : \A q \in g : q[1] # p[1]}

\* {...globalHeaders, ...message.headers}: the message's value wins on a shared key
MergeHeaders(g, m) ==
    {p \in g : \A q \in m : q[1] # p[1]} \cup m

\* a backoff that does not grow with the attempts
BackoffFlat(n) == Min(BackoffMax, BackoffBase)

\* Math.min(max, base * 2 ** reconnectAttempts)
Backoff(n) == Min(BackoffMax, BackoffBase * Pow2(n))

\* one entry of out: a callback invoked, a frame written, a line logged
Eff(kind, uuid, route, flag, headers) ==
    [kind |-> kind, uuid |-> uuid, route |-> route, flag |-> flag, headers |-> headers]
Push(uuid, route) == Eff("push", uuid, route, TRUE, {})
WaiterOk(uuid, route) == Eff("waiter", uuid, route, TRUE, {})
\* {message: null, success: false}
WaiterFail(uuid) == Eff("waiter", uuid, "null", FALSE, {})
Lifecycle(state) == Eff("lifecycle", NoUuid, "", state, {})
Wire(uuid, route, headers) == Eff("send", uuid, route, TRUE, headers)
Log(what) == Eff("log", NoUuid, what, FALSE, {})
Reject == Eff("reject", NoUuid, "WebSocket is not connected.", FALSE, {})
SocketCloseCall == Eff("socket.close", NoUuid, "", TRUE, {})

\* a call of sendMessage, onResponse or sendAndWait with a message of these headers
RanSend(op, uuid, headers) == [op |-> op, route |-> "req", uuid |-> uuid, headers |-> headers]
Ran(op, route, uuid) == [op |-> op, route |-> route, uuid |-> uuid, headers |-> {}]

\* the uuids of S in Map insertion order (uuids are issued in increasing order)
InOrder(S) == SelectSeq([i \in 1..MaxReq |-> i], LAMBDA i : i \in S)

NoTimeout == [set |-> FALSE, live |-> FALSE, left |-> 0]

\* WebSocket.close(): starts the closing handshake of a transport not yet closing
SocketClose(rs) == IF rs \in {"CONNECTING", "OPEN"} THEN "CLOSING" ELSE rs

\* crypto.randomUUID(): a uuid no message carries yet
FreshId(id) == unusedIds # {} /\ id = CHOOSE i \in unusedIds : \A k \in unusedIds : i <= k


\* the matched entry left in the table
RemoveNothing(p, uuid) == p

\* map.delete(uuid)
Remove(p, uuid) == [x \in DOMAIN p \ {uuid} |-> p[x]]

\* a sweep that fails every waiter it finds
ExpiredAlways(item) == TRUE

\* queItem.expire < Date.now(), with expire kept as the time left
Expired(item) == item.expire < 0

\* a send that does not look at the transport's state
CanSendAlways(rs) == TRUE

\* sendMessage: readyState === WebSocket.OPEN
CanSend(rs) == rs = "OPEN"

\* sendAndWait: readyState !== WebSocket.OPEN
NotConnected(rs) == rs # "OPEN"

\* a policy check that knows 1008 only
IsPolicyCloseOneCode(code) == code = 1008

\* onclose: [1008, 1011].includes(event.code)
IsPolicyClose(code) == code \in PolicyCodes

\* the budget test off by one
MayReconnectOneMore(n, max) == n <= max

\* onclose: this.reconnectAttempts < this.maxReconnectAttempts
MayReconnect(n, max) == n < max

\* the heartbeat-timeout timer left running
StopHeartbeatTimeoutNot(t) == t

\* stopHeartbeat, the timeout half: clearTimeout and null
StopHeartbeatTimeout(t) == NoTimeout

\* a heartbeat tick that arms no timer
ArmHeartbeatTimeoutNot(t) == t

\* startHeartbeat's interval callback: clearTimeout of the previous timer and setTimeout
ArmHeartbeatTimeout(t) == [set |-> TRUE, live |-> TRUE, left |-> heartbeatTimeoutDuration]

\* a PONG that leaves the heartbeat-timeout timer running
CancelHeartbeatTimeoutNot(t) == t

\* onmessage, PONG: if (this.heartbeatTimeout) clearTimeout(this.heartbeatTimeout)
CancelHeartbeatTimeout(t) == IF t.set THEN [t EXCEPT !.live = FALSE, !.left = 0] ELSE t

\* sendMessage(message): what it writes or logs
SendMessageOut(m) ==
    IF CanSend(readyState)
    THEN <<Wire(m.uuid, m.route, MergeHeaders(globalHeaders, m.headers))>>
    ELSE <<Log("Cannot send message: WebSocket is not connected.")>>

Message(route, uuid, headers) == [route |-> route, uuid |-> uuid, headers |-> headers]

\* the names sockets are registered under
Names == {"a", "b"}
\* instanceIdsRef.current[name] of a name with no instance: undefined
NoInst == 0
\* a SocketItem: the session, by its instanceId, and socketState
Item(inst, state) == [inst |-> inst, socketState |-> state]
NoItem == Item(NoInst, FALSE)
\* a setSockets updater: the item addSocket sets, removeSocket's delete, or the
\* lifecycle callback's socketState of the instance inst
Updater(kind, name, inst, state) == [kind |-> kind, name |-> name, inst |-> inst, state |-> state]
Called(op, name, inst, flag) == [op |-> op, name |-> name, inst |-> inst, flag |-> flag]

\* -------------------------------------------------------------------- Init
\* the state after the constructor: configuration resolved, connect() called
InitWith(userTimeouts, queTimeouts, maxAttempts, rates, timeouts, queManager, ids) ==
    /\ requestTimeout \in {ClampRequestTimeout(t) : t \in userTimeouts}
    /\ queManagerTimeout \in queTimeouts
    /\ maxReconnectAttempts \in maxAttempts
    /\ heartbeatRate \in rates
    /\ heartbeatTimeoutDuration \in timeouts
    /\ enableQueManager \in queManager
    /\ globalHeaders \in GlobalHeaderChoices
    /\ readyState = "CONNECTING"
    /\ pendingRequests = [x \in {} |-> [expire |-> 0]]
    /\ manuallyClosed = FALSE
    /\ reconnectAttempts = 0
    /\ heartbeatInterval = NULL
    /\ heartbeatTimeout = NoTimeout
    /\ queManagerInterval = NULL
    /\ reconnectTimer = NULL
    /\ unusedIds = ids
    /\ delivered = [id \in Ids |-> <<>>]
    /\ closeCalled = FALSE
    /\ closeCode = NULL
    /\ backoffLog = <<>>
    /\ retries = 0
    /\ last = Ran("constructor", "", NoUuid)
    /\ out = <<>>
    /\ sockets = [n \in {} |-> NoItem]
    /\ updates = <<>>
    /\ instanceIdsRef = [n \in Names |-> NoInst]
    /\ instances = <<>>
    /\ mounted = TRUE
    /\ call = Called("mount", "", NoInst, TRUE)

Init ==
    InitWith({1000}, {2000}, 0..MaxAttempts, {2000}, {1000}, BOOLEAN, Ids)

\* ----------------------------------------------------------------- actions
\* socket.onopen
OnOpen ==
    /\ readyState = "CONNECTING"
    /\ readyState' = "OPEN"
    /\ reconnectAttempts' = 0
    /\ heartbeatInterval' = heartbeatRate
    /\ queManagerInterval' = IF enableQueManager THEN queManagerTimeout ELSE queManagerInterval
    /\ backoffLog' = <<>>
    /\ retries' = 0
    /\ last' = Ran("onopen", "", NoUuid)
    /\ out' = <<Lifecycle(TRUE)>>
    /\ UNCHANGED <<registryVars, cfgVars, pendingRequests, manuallyClosed, heartbeatTimeout, reconnectTimer,
                   unusedIds, delivered, closeCalled, closeCode>>

\* a frame that JSON.parse rejects given to onMessageReceived all the same
OnMalformedPushes ==
    /\ readyState = "OPEN"
    /\ last' = Ran("onmessage", "malformed", NoUuid)
    /\ out' = <<Log("Invalid WebSocket message:"), Push(NoUuid, "malformed")>>
    /\ UNCHANGED <<registryVars, cfgVars, sessionVars, ghostVars>>

\* socket.onmessage of a frame that JSON.parse rejects
OnMalformed ==
    /\ readyState = "OPEN"
    /\ last' = Ran("onmessage", "malformed", NoUuid)
    /\ out' = <<Log("Invalid WebSocket message:")>>
    /\ UNCHANGED <<registryVars, cfgVars, sessionVars, ghostVars>>

\* a matched frame given to its waiter only
FrameCallsWaiterOnly(route, uuid, matched) ==
    IF matched THEN <<WaiterOk(uuid, route)>> ELSE <<Push(uuid, route)>>

\* onmessage, not a PONG: onMessageReceived first, then the waiter when one matches
FrameCalls(route, uuid, matched) ==
    IF matched THEN <<Push(uuid, route), WaiterOk(uuid, route)>> ELSE <<Push(uuid, route)>>

\* socket.onmessage of a frame that parses to a message with this route and uuid
OnMessage(route, uuid) ==
    /\ readyState = "OPEN"
    /\ last' = Ran("onmessage", route, uuid)
    /\ IF route = "PONG"
       THEN /\ heartbeatTimeout' = CancelHeartbeatTimeout(heartbeatTimeout)
            /\ out' = <<>>
            /\ UNCHANGED <<pendingRequests, delivered>>
       ELSE /\ UNCHANGED heartbeatTimeout
            /\ IF uuid \in DOMAIN pendingRequests
               THEN /\ out' = FrameCalls(route, uuid, TRUE)
                    /\ delivered' = [delivered EXCEPT ![uuid] =
                                        Append(@, [success |-> TRUE, by |-> "response"])]
                    /\ pendingRequests' = Remove(pendingRequests, uuid)
               ELSE /\ out' = FrameCalls(route, uuid, FALSE)
                    /\ UNCHANGED <<pendingRequests, delivered>>
    /\ UNCHANGED <<registryVars, cfgVars, readyState, manuallyClosed, reconnectAttempts, heartbeatInterval,
                   queManagerInterval, reconnectTimer, unusedIds, closeCalled, closeCode, backoffLog, retries>>

\* the calls that fail the waiters of the uuids in S, in Map order
FailAll(S) == [k \in 1..Len(InOrder(S)) |-> WaiterFail(InOrder(S)[k])]

\* delivered, after the waiters of the uuids in S were failed
NoteFailed(S, why) ==
    [id \in Ids |-> IF id \in S
                    THEN Append(delivered[id], [success |-> FALSE, by |-> why])
                    ELSE delivered[id]]

\* backoffLog with one more scheduled delay, the last two kept
NoteDelay(log, rec) == IF Len(log) = 2 THEN <<log[2], rec>> ELSE Append(log, rec)

\* socket.onclose, after socket.onerror when the transport failed (code 1006): the
\* close event of the current transport, with its code; jitter is Math.random() * 300
OnClose(code, jitter) ==
    /\ readyState \in {"CONNECTING", "OPEN", "CLOSING"}
    /\ readyState' = "CLOSED"
    /\ closeCode' = code
    /\ last' = Ran("onclose", "", NoUuid)
    /\ queManagerInterval' = NULL
    /\ heartbeatInterval' = NULL
    /\ heartbeatTimeout' = StopHeartbeatTimeout(heartbeatTimeout)
    /\ delivered' = NoteFailed(DOMAIN pendingRequests, "close")
    /\ pendingRequests' = [x \in {} |-> [expire |-> 0]]
    /\ LET before == (IF code = 1006 THEN <<Log("WebSocket error:")>> ELSE <<>>)
                     \o FailAll(DOMAIN pendingRequests) \o <<Lifecycle(FALSE)>>
           backoff == Backoff(reconnectAttempts)
       IN  IF IsPolicyClose(code)
           THEN /\ out' = before \o <<Log("Server closed connection due to authentication or policy violation.")>>
                /\ UNCHANGED <<reconnectTimer, backoffLog>>
           ELSE IF manuallyClosed
           THEN /\ out' = before
                /\ UNCHANGED <<reconnectTimer, backoffLog>>
           ELSE IF MayReconnect(reconnectAttempts, maxReconnectAttempts)
           THEN /\ out' = before
                /\ reconnectTimer' = backoff + jitter
                /\ backoffLog' = NoteDelay(backoffLog,
                                    [attempt |-> reconnectAttempts, backoff |-> backoff,
                                     delay |-> backoff + jitter])
           ELSE /\ out' = before \o <<Log("Max reconnect attempts reached.")>>
                /\ UNCHANGED <<reconnectTimer, backoffLog>>
    /\ UNCHANGED <<registryVars, cfgVars, manuallyClosed, reconnectAttempts, unusedIds, closeCalled, retries>>

\* a reconnect delay that runs again and again (setInterval for setTimeout)
ReconnectFireAgain ==
    /\ reconnectTimer = 0
    /\ reconnectTimer' = BackoffBase
    /\ reconnectAttempts' = reconnectAttempts + 1
    /\ readyState' = "CONNECTING"
    /\ manuallyClosed' = FALSE
    /\ closeCode' = NULL
    /\ retries' = retries + 1
    /\ last' = Ran("reconnect", "", NoUuid)
    /\ out' = <<Eff("new WebSocket", NoUuid, "", TRUE, {})>>
    /\ UNCHANGED <<registryVars, cfgVars, pendingRequests, heartbeatInterval, heartbeatTimeout,
                   queManagerInterval, unusedIds, delivered, closeCalled,
                   backoffLog>>

\* the reconnect delay's callback: reconnectAttempts++ and connect()
ReconnectFire ==
    /\ reconnectTimer = 0
    /\ reconnectTimer' = NULL
    /\ reconnectAttempts' = reconnectAttempts + 1
    /\ readyState' = "CONNECTING"
    /\ manuallyClosed' = FALSE
    /\ closeCode' = NULL
    /\ retries' = retries + 1
    /\ last' = Ran("reconnect", "", NoUuid)
    /\ out' = <<Eff("new WebSocket", NoUuid, "", TRUE, {})>>
    /\ UNCHANGED <<registryVars, cfgVars, pendingRequests, heartbeatInterval, heartbeatTimeout,
                   queManagerInterval, unusedIds, delivered, closeCalled,
                   backoffLog>>

\* the heartbeat interval's callback (startHeartbeat)
HeartbeatTick ==
    /\ heartbeatInterval = 0
    /\ heartbeatInterval' = heartbeatRate
    /\ last' = Ran("heartbeat", "", NoUuid)
    /\ IF readyState = "OPEN"
       THEN /\ out' = SendMessageOut(Message("PING", NoUuid, {}))
            /\ heartbeatTimeout' = ArmHeartbeatTimeout(heartbeatTimeout)
       ELSE /\ out' = <<>>
            /\ UNCHANGED heartbeatTimeout
    /\ UNCHANGED <<registryVars, cfgVars, readyState, pendingRequests, manuallyClosed, reconnectAttempts,
                   queManagerInterval, reconnectTimer, ghostVars>>

\* the heartbeat-timeout timer's callback: no PONG came, socket.close()
HeartbeatTimeoutFire ==
    /\ heartbeatTimeout.live
    /\ heartbeatTimeout.left = 0
    /\ heartbeatTimeout' = [heartbeatTimeout EXCEPT !.live = FALSE]
    /\ readyState' = SocketClose(readyState)
    /\ last' = Ran("heartbeatTimeout", "", NoUuid)
    /\ out' = <<Log("No PONG received! Closing WebSocket..."), SocketCloseCall>>
    /\ UNCHANGED <<registryVars, cfgVars, pendingRequests, manuallyClosed, reconnectAttempts,
                   heartbeatInterval, queManagerInterval, reconnectTimer, ghostVars>>

\* the sweep interval's callback (startQueManager)
QueManagerTick ==
    /\ queManagerInterval = 0
    /\ queManagerInterval' = queManagerTimeout
    /\ last' = Ran("sweep", "", NoUuid)
    /\ LET gone == {id \in DOMAIN pendingRequests : Expired(pendingRequests[id])}
       IN  /\ out' = FailAll(gone)
           /\ delivered' = NoteFailed(gone, "sweep")
           /\ pendingRequests' = [x \in DOMAIN pendingRequests \ gone |-> pendingRequests[x]]
    /\ UNCHANGED <<registryVars, cfgVars, readyState, manuallyClosed, reconnectAttempts, heartbeatInterval,
                   heartbeatTimeout, reconnectTimer, unusedIds, closeCalled,
                   closeCode, backoffLog, retries>>

\* sendMessage(message) by a caller
SendMessage(uuid, headers) ==
    /\ FreshId(uuid)
    /\ unusedIds' = unusedIds \ {uuid}
    /\ last' = RanSend("sendMessage", uuid, headers)
    /\ out' = SendMessageOut(Message("req", uuid, headers))
    /\ UNCHANGED <<registryVars, cfgVars, sessionVars, delivered, closeCalled, closeCode, backoffLog,
                   retries>>

\* onResponse(request, onReceivedAction): register the waiter, then sendMessage
Register(op, uuid, headers) ==
    /\ unusedIds' = unusedIds \ {uuid}
    /\ last' = RanSend(op, uuid, headers)
    /\ pendingRequests' = [x \in DOMAIN pendingRequests \cup {uuid} |->
                              IF x = uuid
                              THEN [expire |-> requestTimeout,
                                    swept |-> queManagerInterval # NULL]
                              ELSE pendingRequests[x]]
    /\ out' = SendMessageOut(Message("req", uuid, MergeHeaders(globalHeaders, headers)))
    /\ UNCHANGED <<registryVars, cfgVars, readyState, manuallyClosed, reconnectAttempts, heartbeatInterval,
                   heartbeatTimeout, queManagerInterval, reconnectTimer, delivered,
                   closeCalled, closeCode, backoffLog, retries>>

OnResponse(uuid, headers) ==
    /\ FreshId(uuid)
    /\ Register("onResponse", uuid, headers)

\* sendAndWait(message): reject when not connected, else onResponse(message, resolve)
SendAndWait(uuid, headers) ==
    /\ FreshId(uuid)
    /\ IF NotConnected(readyState)
       THEN /\ unusedIds' = unusedIds \ {uuid}
            /\ last' = RanSend("sendAndWait", uuid, headers)
            /\ out' = <<Reject>>
            /\ UNCHANGED <<registryVars, cfgVars, sessionVars, delivered, closeCalled, closeCode,
                           backoffLog, retries>>
       ELSE Register("sendAndWait", uuid, headers)

\* close()
Close ==
    /\ manuallyClosed' = TRUE
    /\ queManagerInterval' = NULL
    /\ heartbeatInterval' = NULL
    /\ heartbeatTimeout' = StopHeartbeatTimeout(heartbeatTimeout)
    /\ readyState' = SocketClose(readyState)
    /\ closeCalled' = TRUE
    /\ last' = Ran("close", "", NoUuid)
    /\ out' = <<SocketCloseCall>>
    /\ UNCHANGED <<registryVars, cfgVars, pendingRequests, reconnectAttempts, reconnectTimer, unusedIds,
                   delivered, closeCode, backoffLog, retries>>

\* how far past its expiry the time of a waiter is counted: past one period of the
\* sweep for a waiter the sweep is to fail, else only that it has expired
Horizon(item) == IF item.swept THEN queManagerTimeout + 1 ELSE 1

\* Date.now() moved on by d: the time left, counted down to the horizon past expiry
CountDown(left, d, horizon) == IF left - d < 0 - horizon THEN 0 - horizon ELSE left - d

\* the timers that are running, as the time each has left
Running ==
    {t \in {heartbeatInterval, queManagerInterval, reconnectTimer} : t # NULL}
        \cup (IF heartbeatTimeout.live THEN {heartbeatTimeout.left} ELSE {})

\* time passes by d: no timer is overdue, and none becomes so
Advance(d) ==
    /\ d > 0
    /\ \A t \in Running : d <= t
    /\ heartbeatInterval' = IF heartbeatInterval = NULL THEN NULL ELSE heartbeatInterval - d
    /\ queManagerInterval' = IF queManagerInterval = NULL THEN NULL ELSE queManagerInterval - d
    /\ reconnectTimer' = IF reconnectTimer = NULL THEN NULL ELSE reconnectTimer - d
    /\ heartbeatTimeout' = IF heartbeatTimeout.live
                           THEN [heartbeatTimeout EXCEPT !.left = @ - d]
                           ELSE heartbeatTimeout
    /\ pendingRequests' = [x \in DOMAIN pendingRequests |->
                              [pendingRequests[x] EXCEPT
                                  !.expire = CountDown(@, d, Horizon(pendingRequests[x]))]]
    /\ last' = Ran("time", "", NoUuid)
    /\ out' = <<>>
    /\ UNCHANGED <<registryVars, cfgVars, readyState, manuallyClosed, reconnectAttempts, ghostVars>>

\* what the peer may send: a reply to a request it has seen, or a push
FrameUuids == (Ids \ unusedIds) \cup {NoUuid}

Next ==
    \/ OnOpen
    \/ OnMalformed
    \/ \E route \in {"PONG", "resp"}, uuid \in FrameUuids : OnMessage(route, uuid)
    \/ \E code \in CloseCodes, jitter \in Jitters : OnClose(code, jitter)
    \/ ReconnectFire
    \/ HeartbeatTick
    \/ HeartbeatTimeoutFire
    \/ QueManagerTick
    \/ \E uuid \in Ids, headers \in MessageHeaderChoices : SendMessage(uuid, headers)
    \/ \E uuid \in Ids, headers \in MessageHeaderChoices : OnResponse(uuid, headers)
    \/ \E uuid \in Ids, headers \in MessageHeaderChoices : SendAndWait(uuid, headers)
    \/ Close
    \/ \E d \in {Quantum} \cup Running : Advance(d)

Spec == Init /\ [][Next]_vars

\* One request, every relation between the heartbeat rate and its timeout.
HeartbeatInit ==
    InitWith({1000}, {2000}, {1}, {2000}, {1000, 2000, 3000}, BOOLEAN, 1..MaxSoloReq)

\* The event loop runs every due timer and lets time pass; a transport that is
\* connecting or closing ends in an open or a close event.
Fairness ==
    /\ WF_vars(\E d \in {Quantum} \cup Running : Advance(d))
    /\ WF_vars(HeartbeatTick)
    /\ WF_vars(HeartbeatTimeoutFire)
    /\ WF_vars(QueManagerTick)
    /\ WF_vars(ReconnectFire)
    /\ WF_vars(readyState # "OPEN" /\ (OnOpen \/ \E code \in CloseCodes, jitter \in Jitters :
                                                    OnClose(code, jitter)))

FairSpec == HeartbeatInit /\ [][Next]_vars /\ Fairness

\* One request, a retry budget large enough for the backoff to reach its cap twice.
BackoffInit ==
    InitWith({1000}, {2000}, {MaxBackoffAttempts}, {2000}, {1000}, {TRUE}, 1..MaxSoloReq)

BackoffSpec == BackoffInit /\ [][Next]_vars

\* The sweep enabled, with request timeouts and sweep periods either side of each other.
SweepInit ==
    InitWith({1000, 3000}, {1000, 3000}, {1}, {2000}, {1000}, {TRUE}, 1..MaxSoloReq)

SweepSpec == SweepInit /\ [][Next]_vars

\* ---------------------------------------------------------------- registry
\* one updater of setSockets applied to the state prev
ApplyUpdate(prev, u) ==
    IF u.kind = "set"
    THEN [n \in DOMAIN prev \cup {u.name} |->
             IF n = u.name THEN Item(u.inst, u.state) ELSE prev[n]]
    ELSE IF u.name \notin DOMAIN prev THEN prev
    ELSE IF u.kind = "delete" THEN [n \in DOMAIN prev \ {u.name} |-> prev[n]]
    ELSE [prev EXCEPT ![u.name].socketState = u.state]

\* the updater returns a new object, not prev
NewObject(prev, u) == u.kind = "set" \/ u.name \in DOMAIN prev

RECURSIVE ApplyAll(_, _)
\* the state after the queued updaters, applied in the order they were queued
ApplyAll(prev, q) == IF q = <<>> THEN prev ELSE ApplyAll(ApplyUpdate(prev, Head(q)), Tail(q))

RECURSIVE Changed(_, _)
\* some queued updater returns a new object: the sockets state changes
Changed(prev, q) ==
    q # <<>> /\ (NewObject(prev, Head(q)) \/ Changed(ApplyUpdate(prev, Head(q)), Tail(q)))

\* socket.close() of the sessions in S
CloseAll(insts, S) == [i \in DOMAIN insts |-> IF i \in S THEN [insts[i] EXCEPT !.closed = TRUE]
                                                       ELSE insts[i]]

\* the sessions in a sockets state
Held(state) == {state[n].inst : n \in DOMAIN state}

\* a lifecycle callback that takes the notification of any instance
IsStaleNever(ref, name, inst) == FALSE

\* the lifecycle callback: instanceIdsRef.current[socketName] !== instanceId
IsStale(ref, name, inst) == ref[name] # inst

\* addSocket(name, url, onMessage, force)
AddSocket(name, force) ==
    /\ mounted
    /\ IF name \in DOMAIN sockets /\ ~force
       THEN /\ call' = Called("addSocket", name, sockets[name].inst, FALSE)
            /\ UNCHANGED <<sockets, updates, instanceIdsRef, instances, mounted>>
       ELSE /\ Len(instances) < MaxInst
            /\ Len(updates) < MaxUpdates
            /\ LET instanceId == Len(instances) + 1
                   replaced == IF name \in DOMAIN sockets THEN {sockets[name].inst} ELSE {}
               IN  /\ instanceIdsRef' = [instanceIdsRef EXCEPT ![name] = instanceId]
                   /\ instances' = Append(CloseAll(instances, replaced),
                                          [name |-> name, closed |-> FALSE])
                   /\ updates' = Append(updates, Updater("set", name, instanceId, FALSE))
                   /\ call' = Called("addSocket", name, instanceId, TRUE)
            /\ UNCHANGED <<sockets, mounted>>
    /\ UNCHANGED <<cfgVars, sessionVars, ghostVars, last, out>>

\* removeSocket(name)
RemoveSocket(name) ==
    /\ mounted
    /\ IF name \notin DOMAIN sockets
       THEN /\ call' = Called("removeSocket", name, NoInst, FALSE)
            /\ UNCHANGED <<sockets, updates, instanceIdsRef, instances, mounted>>
       ELSE /\ Len(updates) < MaxUpdates
            /\ instances' = CloseAll(instances, {sockets[name].inst})
            /\ updates' = Append(updates, Updater("delete", name, NoInst, FALSE))
            /\ instanceIdsRef' = [instanceIdsRef EXCEPT ![name] = NoInst]
            /\ call' = Called("removeSocket", name, sockets[name].inst, TRUE)
            /\ UNCHANGED <<sockets, mounted>>
    /\ UNCHANGED <<cfgVars, sessionVars, ghostVars, last, out>>

\* the lifecycle callback addSocket gave to the session inst, called with connected
OnStateChange(inst, connected) ==
    /\ mounted
    /\ inst \in DOMAIN instances
    /\ call' = Called("onStateChange", instances[inst].name, inst, connected)
    /\ IF IsStale(instanceIdsRef, instances[inst].name, inst)
       THEN UNCHANGED updates
       ELSE /\ Len(updates) < MaxUpdates
            /\ updates' = Append(updates, Updater("state", instances[inst].name, inst, connected))
    /\ UNCHANGED <<sockets, instanceIdsRef, instances, mounted>>
    /\ UNCHANGED <<cfgVars, sessionVars, ghostVars, last, out>>

\* React renders the provider with the queued updaters applied; when the sockets
\* state changed, the cleanup of the effect of the previous render runs
Render ==
    /\ mounted
    /\ updates # <<>>
    /\ updates' = <<>>
    /\ call' = Called("render", "", NoInst, Changed(sockets, updates))
    /\ IF Changed(sockets, updates)
       THEN /\ sockets' = ApplyAll(sockets, updates)
            /\ instances' = CloseAll(instances, Held(sockets))
       ELSE UNCHANGED <<sockets, instances>>
    /\ UNCHANGED <<instanceIdsRef, mounted>>
    /\ UNCHANGED <<cfgVars, sessionVars, ghostVars, last, out>>

\* the provider unmounts: the cleanup of the effect of the last render runs
Unmount ==
    /\ mounted
    /\ mounted' = FALSE
    /\ instances' = CloseAll(instances, Held(sockets))
    /\ call' = Called("unmount", "", NoInst, TRUE)
    /\ UNCHANGED <<sockets, updates, instanceIdsRef>>
    /\ UNCHANGED <<cfgVars, sessionVars, ghostVars, last, out>>

RegistryNext ==
    \/ \E name \in Names, force \in BOOLEAN : AddSocket(name, force)
    \/ \E name \in Names : RemoveSocket(name)
    \/ \E inst \in 1..MaxInst, connected \in BOOLEAN : OnStateChange(inst, connected)
    \/ Render
    \/ Unmount

\* The provider with no socket yet; the session variables stay as constructed.
RegistryInit == InitWith({1000}, {2000}, {0}, {2000}, {1000}, {FALSE}, {})

RegistrySpec == RegistryInit /\ [][RegistryNext]_vars

\* ------------------------------------------------------------------ claims
Range(f) == {f[i] : i \in DOMAIN f}

\* no transport and no reconnect delay: nothing will ever run onclose again
Terminal == readyState = "CLOSED" /\ reconnectTimer = NULL

\* C1: the handler of a waiter is invoked at most once (by a matching response, by
\* the sweep or by the close of the transport), and the step that invokes it
\* removes its entry from pendingRequests.
C1_AtMostOnce ==
    \A id \in Ids :
        /\ Len(delivered[id]) <= 1
        /\ delivered[id] # <<>> => id \notin DOMAIN pendingRequests

\* C1's case: a second frame with the uuid of a waiter already resolved by a response
C1_Witness ==
    \E id \in Ids :
        /\ last = Ran("onmessage", "resp", id)
        /\ out = <<Push(id, "resp")>>
        /\ delivered[id] = <<[success |-> TRUE, by |-> "response"]>>

\* C2: every waiter registered by a correlated send is resolved eventually, in
\* whatever state of the session it was registered; here for a session that is
\* closed for good (time passes too, so its expireAt passes).
C2_EveryWaiterResolved ==
    \A id \in Ids :
        (id \in DOMAIN pendingRequests /\ Terminal) ~> (delivered[id] # <<>>)

\* C3: once close() has been called, manuallyClosed stays true and the session has
\* no transport that is connecting or open.
C3_ClosedForGood ==
    closeCalled => manuallyClosed /\ readyState \in {"CLOSING", "CLOSED"}

\* C4: the close transition (onclose), whatever its cause, fails every waiter that
\* was pending with {message: null, success: false}, empties pendingRequests, leaves
\* the heartbeat interval, the heartbeat-timeout timer and the sweep interval
\* stopped, and notifies the lifecycle callback with (name, false).
C4_CloseTransition ==
    [][(readyState # "CLOSED" /\ readyState' = "CLOSED") =>
          /\ \A id \in DOMAIN pendingRequests :
                /\ WaiterFail(id) \in Range(out')
                /\ delivered'[id] = Append(delivered[id], [success |-> FALSE, by |-> "close"])
          /\ DOMAIN pendingRequests' = {}
          /\ heartbeatInterval' = NULL
          /\ heartbeatTimeout' = NoTimeout
          /\ queManagerInterval' = NULL
          /\ Lifecycle(FALSE) \in Range(out')]_vars

\* C4's case: a transport closed while a waiter was pending and the heartbeat and the
\* sweep were running
C4_Witness ==
    /\ last.op = "onclose"
    /\ \E id \in Ids : WaiterFail(id) \in Range(out)
    /\ ~closeCalled
    /\ enableQueManager

\* C5: when close() returns, every waiter that was outstanding has been failed and
\* pendingRequests is empty.
C5_CloseFailsWaiters ==
    last.op = "close" => DOMAIN pendingRequests = {}

\* a PING was written by the heartbeat tick that just ran
PingSent == last.op = "heartbeat" /\ \E e \in Range(out) : e.kind = "send" /\ e.route = "PING"
\* the heartbeat-timeout timer just ran socket.close() on the open transport
ForceClosed == last.op = "heartbeatTimeout" /\ readyState = "CLOSING"
\* the PING's case is over: closed by the timer, a PONG came, or the transport is
\* no longer open for another reason
PingSettled ==
    \/ ForceClosed
    \/ last.op = "onmessage" /\ last.route = "PONG"
    \/ readyState # "OPEN"

\* C6: for all heartbeatRate and heartbeatTimeoutDuration: after a PING sent at a
\* heartbeat tick, with no PONG received and the transport staying open, the
\* heartbeat-timeout timer force-closes the transport.
C6_DeadDetected == PingSent ~> PingSettled

\* C6 as amended: the same for heartbeatTimeoutDuration < heartbeatRate.
C6_DeadDetectedWhenShorter ==
    (heartbeatTimeoutDuration < heartbeatRate /\ PingSent) ~> PingSettled

\* C6's case: the timer of a PING fired and closed the transport
C6_Witness == ForceClosed /\ heartbeatTimeoutDuration < heartbeatRate

\* C7: sendMessage and sendAndWait called while the transport is not OPEN change
\* nothing in the session and write nothing (sendAndWait rejects and registers no
\* waiter); nothing is written later either: a step writes to the transport only
\* the message of the send it runs, on an open transport, or the heartbeat's PING.
C7_FailedSendChangesNothing ==
    [][/\ (/\ last'.op \in {"sendMessage", "sendAndWait"}
           /\ unusedIds' # unusedIds
           /\ readyState # "OPEN")
          => /\ UNCHANGED sessionVars
             /\ \A e \in Range(out') : e.kind # "send"
             /\ last'.op = "sendAndWait" => out' = <<Reject>>
       /\ \A e \in Range(out') :
             e.kind = "send" =>
                /\ readyState = "OPEN"
                /\ \/ last'.op = "heartbeat" /\ e.route = "PING"
                   \/ /\ last'.op \in {"sendMessage", "onResponse", "sendAndWait"}
                      /\ e.uuid = last'.uuid
                      /\ e.uuid \in unusedIds]_vars

\* C7's case: sendAndWait rejected while a reconnect is pending
C7_Witness ==
    /\ last.op = "sendAndWait"
    /\ out = <<Reject>>
    /\ reconnectTimer # NULL
    /\ readyState = "CLOSED"

\* C8: a close with code 1008 or 1011 notifies the lifecycle callback with
\* (name, false) and schedules no reconnect, whatever reconnectAttempts,
\* maxReconnectAttempts and manuallyClosed are; no transport is created afterwards.
C8_PolicyCloseIsTerminal ==
    [][/\ (closeCode \notin PolicyCodes /\ closeCode' \in PolicyCodes)
          => /\ Lifecycle(FALSE) \in Range(out')
             /\ reconnectTimer' = NULL
             /\ readyState' = "CLOSED"
       /\ closeCode \in PolicyCodes
          => /\ closeCode' = closeCode
             /\ reconnectTimer' = NULL
             /\ readyState' = "CLOSED"]_vars

\* C8's case: a policy close of a session with retry budget left and no close() call
C8_Witness ==
    /\ last.op = "onclose"
    /\ closeCode \in PolicyCodes
    /\ reconnectAttempts < maxReconnectAttempts
    /\ ~manuallyClosed

\* the retry budget is spent: the last transport closed, no reconnect is scheduled
Exhausted == Terminal /\ closeCode \in CloseCodes \ PolicyCodes /\ ~closeCalled

\* C9: an open resets reconnectAttempts to 0; with no policy close and no close()
\* call, the reconnects since construction or the last open never exceed
\* maxReconnectAttempts, the session stops only after exactly that many, and a
\* session with no transport and no reconnect scheduled stays so.
C9_RetryBudget ==
    [][/\ (readyState = "CONNECTING" /\ readyState' = "OPEN") => reconnectAttempts' = 0
       /\ ~closeCalled' => retries' <= maxReconnectAttempts
       /\ Exhausted' => retries' = maxReconnectAttempts
       /\ Terminal => Terminal']_vars

\* C9's case: a session that opened after a failed attempt, then used up its budget
C9_Witness ==
    /\ Exhausted
    /\ maxReconnectAttempts = MaxAttempts
    /\ retries = MaxAttempts
    /\ \E id \in Ids : delivered[id] = <<[success |-> TRUE, by |-> "response"]>>

\* C10: of two consecutive reconnect delays (no open in between), the later is
\* never the shorter, for every maxReconnectAttempts and every jitter.
C10_DelayMonotone ==
    Len(backoffLog) = 2 => backoffLog[1].delay <= backoffLog[2].delay

\* C10 as amended: the later delay is never the shorter as long as the earlier
\* backoff was below the cap; the backoff without the jitter never decreases.
C10_DelayMonotoneBelowCap ==
    Len(backoffLog) = 2 =>
        /\ backoffLog[1].backoff <= backoffLog[2].backoff
        /\ backoffLog[1].backoff < BackoffMax => backoffLog[1].delay <= backoffLog[2].delay

\* C10's case: the delay that first reaches the cap, after one below it with jitter
C10_Witness ==
    /\ Len(backoffLog) = 2
    /\ backoffLog[1].delay > backoffLog[1].backoff
    /\ backoffLog[1].backoff < BackoffMax
    /\ backoffLog[2].backoff = BackoffMax

\* C11: every frame that parses and is not a PONG is given to onMessageReceived
\* with {message, success: true}, whether or not its uuid matches a waiter; when it
\* matches, the same handling step invokes the waiter too, after onMessageReceived,
\* and removes its entry. A frame is handled whole in the step that receives it.
C11_PushThenWaiter ==
    [][(last'.op = "onmessage" /\ last'.route \notin {"PONG", "malformed"}) =>
          LET id == last'.uuid
              push == Eff("push", id, last'.route, TRUE, {})
              waiter == Eff("waiter", id, last'.route, TRUE, {})
          IN  IF id \in DOMAIN pendingRequests
              THEN /\ out' = <<push, waiter>>
                   /\ DOMAIN pendingRequests' = DOMAIN pendingRequests \ {id}
              ELSE /\ out' = <<push>>
                   /\ UNCHANGED pendingRequests]_vars

\* C11's case: a response that matched a waiter while another waiter was pending
C11_Witness ==
    \E id \in Ids :
        /\ last = Ran("onmessage", "resp", id)
        /\ Len(out) = 2
        /\ out[1].kind = "push" /\ out[2].kind = "waiter"
        /\ DOMAIN pendingRequests # {}

\* C12: a PONG frame cancels the heartbeat-timeout timer and does nothing else: no
\* callback is invoked, and pendingRequests and the rest of the session are left as
\* they were, also when the PONG carries the uuid of a pending waiter.
C12_PongOnlyCancels ==
    [][(last'.op = "onmessage" /\ last'.route = "PONG") =>
          /\ out' = <<>>
          /\ ~heartbeatTimeout'.live
          /\ heartbeatTimeout'.set = heartbeatTimeout.set
          /\ UNCHANGED <<readyState, pendingRequests, manuallyClosed, reconnectAttempts,
                         heartbeatInterval, queManagerInterval, reconnectTimer, delivered>>]_vars

\* C12's case: a PONG with the uuid of a pending waiter cancelled an armed timer
C12_Witness ==
    \E id \in DOMAIN pendingRequests :
        /\ last = Ran("onmessage", "PONG", id)
        /\ readyState = "OPEN"
        /\ heartbeatTimeout.set /\ ~heartbeatTimeout.live

\* the time since the registration of a waiter
Age(item) == requestTimeout - item.expire

\* C13: a sweep tick fails exactly the pending waiters whose expiry has passed, so
\* none earlier than requestTimeout after its registration, and removes them, so a
\* later close does not fail them again; a waiter registered while the sweep runs
\* is never pending on the open transport later than requestTimeout +
\* queManagerTimeout after its registration.
C13_SweepWindow ==
    [][/\ last'.op = "sweep" =>
             \A id \in DOMAIN pendingRequests :
                IF Age(pendingRequests[id]) > requestTimeout
                THEN /\ WaiterFail(id) \in Range(out')
                     /\ delivered'[id] = Append(delivered[id], [success |-> FALSE, by |-> "sweep"])
                     /\ id \notin DOMAIN pendingRequests'
                ELSE /\ WaiterFail(id) \notin Range(out')
                     /\ delivered'[id] = delivered[id]
                     /\ id \in DOMAIN pendingRequests'
       /\ \A id \in DOMAIN pendingRequests' :
             (pendingRequests'[id].swept /\ readyState' = "OPEN")
                => Age(pendingRequests'[id]) <= requestTimeout + queManagerTimeout
       /\ last'.op = "onclose" =>
             \A id \in Ids :
                (\E k \in DOMAIN delivered[id] : delivered[id][k].by = "sweep")
                   => WaiterFail(id) \notin Range(out') /\ delivered'[id] = delivered[id]]_vars

\* C13's case: the sweep failed a waiter whose response never came, on a transport
\* that stayed open
C13_Witness ==
    \E id \in Ids :
        /\ last.op = "sweep"
        /\ out = <<WaiterFail(id)>>
        /\ delivered[id] = <<[success |-> FALSE, by |-> "sweep"]>>
        /\ readyState = "OPEN"
        /\ retries = 0

\* the keys of a header set
Keys(h) == {p[1] : p \in h}

\* C14: a message written by sendMessage, onResponse or sendAndWait on an open
\* transport carries every key of globalHeaders and of its own headers, each once,
\* with the message's value where both have the key; the heartbeat's PING carries
\* globalHeaders.
C14_HeadersOverlay ==
    [][/\ (/\ last'.op \in {"sendMessage", "onResponse", "sendAndWait"}
           /\ unusedIds' # unusedIds
           /\ readyState = "OPEN")
          => /\ Len(out') = 1
             /\ out'[1].kind = "send"
             /\ out'[1].uuid = last'.uuid
             /\ Keys(out'[1].headers) = Keys(globalHeaders) \cup Keys(last'.headers)
             /\ \A p \in out'[1].headers :
                   /\ IF p[1] \in Keys(last'.headers) THEN p \in last'.headers
                                                      ELSE p \in globalHeaders
                   /\ \A q \in out'[1].headers : q[1] = p[1] => q = p
       /\ \A e \in Range(out') :
             (e.kind = "send" /\ last'.op = "heartbeat") => e.headers = globalHeaders]_vars

\* C14's case: a correlated send whose headers share a key with globalHeaders
C14_Witness ==
    /\ last.op = "onResponse"
    /\ Keys(last.headers) \cap Keys(globalHeaders) # {}
    /\ Len(out) = 1
    /\ out[1].kind = "send"
    /\ <<"token", "m">> \in out[1].headers
    /\ <<"lang", "g">> \in out[1].headers

\* the sessions created under a name whose close() the registry has not called
Unclosed(name) == {i \in DOMAIN instances : instances[i].name = name /\ ~instances[i].closed}

\* C15: the registry prevents duplicate connections: whatever addSocket and
\* removeSocket calls are made, several for one name before a render included, at
\* most one session per name has not been closed.
C15_OneLivePerName ==
    \A name \in Names : Cardinality(Unclosed(name)) <= 1

\* C16: the registry closes a session only in removeSocket for its name, in an
\* addSocket that replaces it, or at unmount: never because the sockets state
\* changed.
C16_ClosedOnlyOnRequest ==
    [][\A i \in DOMAIN instances :
          (~instances[i].closed /\ instances'[i].closed) =>
             \/ call'.op = "unmount"
             \/ call'.op = "removeSocket" /\ call'.name = instances[i].name
             \/ call'.op = "addSocket" /\ call'.flag /\ call'.name = instances[i].name]_vars

\* the session is the one registered under its name once the queued updaters apply
Registered(inst) ==
    LET final == ApplyAll(sockets, updates)
        name == instances[inst].name
    IN  name \in DOMAIN final /\ final[name].inst = inst

RECURSIVE StaleFree(_, _)
\* every queued socketState updater finds, at its turn, the item of the session
\* that queued it, or no item
StaleFree(prev, q) ==
    \/ q = <<>>
    \/ /\ (Head(q).kind = "state" /\ Head(q).name \in DOMAIN prev)
             => prev[Head(q).name].inst = Head(q).inst
       /\ StaleFree(ApplyUpdate(prev, Head(q)), Tail(q))

\* C17: a lifecycle notification of a session that is not the one registered under
\* its name (replaced or removed) changes neither the sockets state nor the queue
\* of updaters; the socketState of an item changes only by an updater that the
\* item's own session queued, whatever the order of the old session's late events
\* and the new one's.
C17_StaleIgnored ==
    [][/\ \A i \in DOMAIN instances :
             (call'.op = "onStateChange" /\ call'.inst = i /\ ~Registered(i))
                => UNCHANGED <<sockets, updates>>
       /\ StaleFree(sockets', updates')
       /\ \A n \in DOMAIN sockets \cap DOMAIN sockets' :
             (sockets'[n].inst = sockets[n].inst
                 /\ sockets'[n].socketState # sockets[n].socketState)
                => \E k \in DOMAIN updates :
                      updates[k] = Updater("state", n, sockets[n].inst, sockets'[n].socketState)]_vars

\* C17's case: the late notification of a replaced session, ignored while an
\* updater of the session that replaced it is queued
C17_Witness ==
    \E i, j \in DOMAIN instances :
        /\ i # j
        /\ instances[i].name = instances[j].name
        /\ instances[i].closed
        /\ instanceIdsRef[instances[j].name] = j
        /\ call = Called("onStateChange", instances[i].name, i, FALSE)
        /\ \E k \in DOMAIN updates : updates[k].kind = "state" /\ updates[k].inst = j

\* C18: a reconnect delay is pending only while the session has no transport (the
\* last one delivered its close event), a delay is scheduled only when none is
\* pending, and a transport is created only by the delay's callback, when the
\* previous transport is closed: the session never has two transports or two
\* delays, and a transport that was replaced has no event left to deliver.
C18_OneTransport ==
    [][/\ reconnectTimer' # NULL => readyState' = "CLOSED"
       /\ (last'.op = "onclose" /\ readyState # "CLOSED" /\ reconnectTimer' # NULL)
             => reconnectTimer = NULL
       /\ (\E e \in Range(out') : e.kind = "new WebSocket")
             => /\ last'.op = "reconnect"
                /\ retries' = retries + 1 => readyState = "CLOSED" /\ reconnectTimer = 0]_vars

\* C18's case: the second transport created by reconnects in a row
C18_Witness ==
    /\ last.op = "reconnect"
    /\ readyState = "CONNECTING"
    /\ retries = 2
    /\ reconnectTimer = NULL

\* C19: a frame that fails to parse invokes no callback and leaves pendingRequests,
\* the timers, reconnectAttempts and the connection state as they were; the
\* transport stays open, so the frames after it are handled as any other.
C19_MalformedChangesNothing ==
    [][(last'.op = "onmessage" /\ last'.route = "malformed") =>
          /\ \A e \in Range(out') : e.kind = "log"
          /\ UNCHANGED <<sessionVars, delivered>>
          /\ readyState' = "OPEN"]_vars

\* C19's case: a malformed frame while a waiter was pending and a PING unanswered
C19_Witness ==
    /\ last = Ran("onmessage", "malformed", NoUuid)
    /\ DOMAIN pendingRequests # {}
    /\ heartbeatTimeout.live
    /\ queManagerInterval # NULL

\* C20: 0 <= reconnectAttempts <= maxReconnectAttempts in every reachable state, for
\* every maxReconnectAttempts, close() calls included.
C20_AttemptsInBudget ==
    0 <= reconnectAttempts /\ reconnectAttempts <= maxReconnectAttempts

\* C20's case: the budget used up by a reconnect that ran after close() was called
C20_Witness ==
    /\ maxReconnectAttempts = MaxAttempts
    /\ reconnectAttempts = maxReconnectAttempts
    /\ closeCalled
    /\ last.op = "reconnect"
====
